---- MODULE Spec2Model ----
(***************************************************************************)
(* Model of the tcp-chat-server order pipeline: the Matcher                 *)
(* (src/src/matcher.rs), the Acceptor (src/src/server.rs), the Decode       *)
(* Stage (src/src/decoder.rs) and the Encode Stage (src/src/encoder.rs).    *)
(***************************************************************************)
EXTENDS Integers, Sequences, FiniteSets, TLC

(* ---------------------------- bounds ----------------------------------- *)
\* cap on a resting count of a Book when the Matcher is driven on its own
MaxCount == 2
\* number of connections that the clients open
MaxConns == 2
\* number of lines that the clients write, all together
MaxLines == 2
\* capacity of each of the three mpsc channels of the model
ChanCap == 1
\* number of transport faults (failed or short writes, resets, unusable streams)
MaxFaults == 1
\* number of colon-delimited tokens of a line, where lines are enumerated
MaxTokens == 3
\* calls of the Matcher on its own
MaxCalls == 5

(* ---------------------------- models.rs -------------------------------- *)
Product == {"Apples", "Pears", "Tomatoes", "Potatoes", "Onions"}
Side == {"Buy", "Sell"}

\* the products that the calls of the Matcher on its own are drawn from
OrderProducts == {"Apples", "Pears", "Onions"}

\* impl FromStr for Product
ProductFromStr(s) ==
    CASE s = "APPLE" -> "Apples"
      [] s = "PEAR" -> "Pears"
      [] s = "TOMATO" -> "Tomatoes"
      [] s = "POTATO" -> "Potatoes"
      [] s = "ONION" -> "Onions"
      [] OTHER -> "Err"

\* impl ToString for Product
ProductToString(p) ==
    CASE p = "Apples" -> "APPLE"
      [] p = "Pears" -> "PEAR"
      [] p = "Tomatoes" -> "TOMATO"
      [] p = "Potatoes" -> "POTATO"
      [] p = "Onions" -> "ONION"

\* impl FromStr for Side
SideFromStr(s) ==
    CASE s = "BUY" -> "Buy"
      [] s = "SELL" -> "Sell"
      [] OTHER -> "Err"

\* the Err of Order::from_str
ParseErr == [ok |-> FALSE, side |-> "Err", product |-> "Err"]

\* impl FromStr for Order. A line is the sequence of its colon-delimited
\* tokens (s.split(':') yields at least one); tokens after the second are
\* never looked at.
OrderFromStr(line) ==
    IF Len(line) < 2 THEN ParseErr
    ELSE LET side == SideFromStr(line[1])
             product == ProductFromStr(line[2])
         IN IF side = "Err" \/ product = "Err" THEN ParseErr
            ELSE [ok |-> TRUE, side |-> side, product |-> product]

\* Encode for Message and MessageAck: the line written, as its tokens
EncodeMessage(origin_client_id, message) == <<"MESSAGE", origin_client_id, message>>
EncodeMessageAck == <<"ACK", "MESSAGE">>

\* Encode for Login, OrderAck and Trade: the line written, as its tokens
EncodeLogin(client_id) == <<"LOGIN", client_id>>
EncodeOrderAck(product) == <<"ACK", ProductToString(product)>>
EncodeTrade(product) == <<"TRADE", ProductToString(product)>>

\* the lines that the clients of the model write
ClientLines == {<<"BUY", "APPLE">>, <<"SELL", "APPLE">>, <<"BUY", "PEAR">>, <<"HELLO">>}

\* connections that fill the Decode control channel and suspend one more send
BurstConns == ChanCap + 2

\* the connections of the model; those of 1 .. MaxConns are opened under any
\* traffic, the others only in a burst of connections
Conns == 1 .. (IF MaxConns > BurstConns THEN MaxConns ELSE BurstConns)

VARIABLES
    books,      \* Matcher.books : HashMap<Product, Book>, created lazily
    call,       \* the last add_buy / add_sell call: side, product, returned Option<Match>, parity,
                \* and the calls and the returned matches so far, per product
    port,       \* the remote port of each connection (ClientId(socket.port()))
    cstate,     \* each connection: "idle", "backlog", "open" (accepted and split) or "dropped"
    closed,     \* the client has closed or reset its socket
    closedIdle, \* ... and did so while nothing was in flight in the pipeline
    inbound,    \* lines a client wrote that the Decode Stage has not read yet
    nsent,      \* number of lines that the clients wrote
    out,        \* the writes to each connection's write half, in order
    faults,     \* transport faults so far
    cancelled,  \* CancellationToken
    decCtl,     \* channel of DecoderTaskControl (Acceptor -> Decode Stage)
    decEvt,     \* channel of DecoderEvent (Decode Stage -> Acceptor)
    encCtl,     \* channel of EncoderTaskControl (Acceptor -> Encode Stage)
    srvPc,      \* Server::run: "select", "new_dec", "new_enc", "fwd_disc", "fwd_ack", "fwd_match", "ok", "err"
    srvMsg,     \* what the Acceptor is forwarding while suspended in a send
    decPc,      \* Decoder::run: "select", "emit", "ok", "err"
    decClients, \* Decoder.clients : ClientId -> read half (the connection)
    passDisc,   \* disconnected_clients of the decode_message pass in flight
    emitDisc,   \* disconnected_clients still to be sent by Decoder::run
    emitMsg,    \* message of the DecoderMessage being sent by Decoder::run
    encPc,      \* Encoder::run: "run", "err"
    encClients  \* Encoder.clients : ClientId -> write half (the connection)

mvars == <<books, call>>
cvars == <<port, cstate, closed, closedIdle, inbound, nsent>>
chans == <<decCtl, decEvt, encCtl>>
svars == <<srvPc, srvMsg>>
dvars == <<decPc, decClients, passDisc, emitDisc, emitMsg>>
evars == <<encPc, encClients>>
vars == <<books, call, port, cstate, closed, closedIdle, inbound, nsent, out, faults, cancelled,
          decCtl, decEvt, encCtl, srvPc, srvMsg, decPc, decClients, passDisc,
          emitDisc, emitMsg, encPc, encClients>>

(* ---------------------------- matcher.rs ------------------------------- *)
\* no call yet: nothing was applied, nothing was returned
NoTally == [p \in Product |-> 0]
NoCall ==
    [side |-> "None", product |-> "None", ret |-> "None", tick |-> 0,
     n |-> 0, buys |-> NoTally, sells |-> NoTally, trades |-> NoTally]

ZeroBook == [buys |-> 0, sells |-> 0]

\* Matcher::new
MatcherNew == << >>

\* the Book of a product as get_book would return it (zero-initialised when absent)
BookOf(bk, product) == IF product \in DOMAIN bk THEN bk[product] ELSE ZeroBook

\* Matcher::get_book: entry(product).or_insert_with(zero book)
get_book(bk, product) ==
    [p \in (DOMAIN bk) \cup {product} |-> BookOf(bk, p)]

\* add_buy with the resting sell left in the book when it is matched
add_buy_KeepsSell(bk, product) ==
    LET b == get_book(bk, product) IN
    IF b[product].sells > 0
    THEN [books |-> b, ret |-> product]
    ELSE [books |-> [b EXCEPT ![product].buys = @ + 1], ret |-> "None"]

add_buy_AlwaysRests(bk, product) ==
    LET b == get_book(bk, product) IN
    [books |-> [b EXCEPT ![product].buys = @ + 1], ret |-> "None"]

\* Matcher::add_buy
add_buy(bk, product) ==
    LET b == get_book(bk, product) IN
    IF b[product].sells > 0
    THEN [books |-> [b EXCEPT ![product].sells = @ - 1], ret |-> product]
    ELSE [books |-> [b EXCEPT ![product].buys = @ + 1], ret |-> "None"]

add_sell_DrainsSells(bk, product) ==
    LET b == get_book(bk, product) IN
    IF b[product].sells > 0
    THEN [books |-> [b EXCEPT ![product].sells = @ - 1], ret |-> product]
    ELSE [books |-> [b EXCEPT ![product].sells = @ + 1], ret |-> "None"]

\* Matcher::add_sell
add_sell(bk, product) ==
    LET b == get_book(bk, product) IN
    IF b[product].buys > 0
    THEN [books |-> [b EXCEPT ![product].buys = @ - 1], ret |-> product]
    ELSE [books |-> [b EXCEPT ![product].sells = @ + 1], ret |-> "None"]

\* the match on order.side of Server::handle_decoder_event
apply(bk, side, product) ==
    IF side = "Buy" THEN add_buy(bk, product) ELSE add_sell(bk, product)

\* the record of a call of the Matcher, after the record `cl`
Recorded(cl, side, product, r) ==
    [side |-> side, product |-> product, ret |-> r.ret, tick |-> 1 - cl.tick,
     n |-> cl.n + 1,
     buys |-> IF side = "Buy" THEN [cl.buys EXCEPT ![product] = @ + 1] ELSE cl.buys,
     sells |-> IF side = "Sell" THEN [cl.sells EXCEPT ![product] = @ + 1] ELSE cl.sells,
     trades |-> IF r.ret # "None" THEN [cl.trades EXCEPT ![product] = @ + 1] ELSE cl.trades]

\* a call would not push a resting count past the cap of the model
WithinCap(bk, side, product) ==
    IF side = "Buy"
    THEN BookOf(bk, product).sells > 0 \/ BookOf(bk, product).buys < MaxCount
    ELSE BookOf(bk, product).buys > 0 \/ BookOf(bk, product).sells < MaxCount

(* ------------------------- initial state ------------------------------- *)
\* the connections take their remote ports in any pattern of equal and
\* distinct ports (two peers on different hosts may use the same port)
PortPatterns ==
    {f \in [Conns -> Conns] :
        \A c \in Conns :
            IF c > MaxConns THEN f[c] = c
            ELSE f[c] <= 1 + (IF c = 1 THEN 0
                              ELSE CHOOSE m \in Conns :
                                     /\ \E d \in 1 .. (c - 1) : f[d] = m
                                     /\ \A d \in 1 .. (c - 1) : f[d] <= m)}

EmptyMap == << >>

\* no message held
NoMsg == [type |-> "None"]

\* Decoder::default, Encoder::default, Server::bind, the channels and the
\* token of main
PipelineInit ==
    /\ cstate = [c \in Conns |-> "idle"]
    /\ closed = [c \in Conns |-> FALSE]
    /\ closedIdle = [c \in Conns |-> FALSE]
    /\ inbound = [c \in Conns |-> << >>]
    /\ nsent = 0
    /\ out = [c \in Conns |-> << >>]
    /\ faults = 0
    /\ cancelled = FALSE
    /\ decCtl = << >> /\ decEvt = << >> /\ encCtl = << >>
    /\ srvPc = "select" /\ srvMsg = NoMsg
    /\ decPc = "select" /\ decClients = EmptyMap
    /\ passDisc = << >> /\ emitDisc = << >> /\ emitMsg = NoMsg
    /\ encPc = "run" /\ encClients = EmptyMap

\* every connection has a remote port of its own
Init ==
    /\ books = MatcherNew
    /\ call = NoCall
    /\ port = [c \in Conns |-> c]
    /\ PipelineInit

\* connections may share a remote port
InitPorts ==
    /\ books = MatcherNew
    /\ call = NoCall
    /\ port \in PortPatterns
    /\ PipelineInit

(* ------------------------- maps and channels --------------------------- *)
\* HashMap::insert: an entry of the same key is replaced
Insert(m, k, v) == [x \in (DOMAIN m) \cup {k} |-> IF x = k THEN v ELSE m[x]]

\* HashMap::remove
Remove(m, k) == [x \in (DOMAIN m) \ {k} |-> m[x]]

\* the task that holds the receiving / sending end of a channel has returned
SrvFinished == srvPc \in {"ok", "err"}
DecFinished == decPc \in {"ok", "err"}
EncFinished == encPc = "err"

\* ClientId(socket.port())
ClientIdOf(c) == port[c]

\* the Decode Stage holds c's read half under c's ClientId
ReadByDecoder(c) == ClientIdOf(c) \in DOMAIN decClients /\ decClients[ClientIdOf(c)] = c

(* ------------------------- clients and faults -------------------------- *)
\* a client connects: the connection waits in the listener's backlog
ClientConnect(c) ==
    /\ cstate[c] = "idle"
    /\ ~SrvFinished
    /\ cstate' = [cstate EXCEPT ![c] = "backlog"]
    /\ UNCHANGED <<mvars, port, closed, closedIdle, inbound, nsent, out, faults, cancelled,
                   chans, svars, dvars, evars>>

\* a client writes one line
ClientWrite(c, line) ==
    /\ cstate[c] = "open" /\ ~closed[c]
    /\ ~DecFinished
    /\ nsent < MaxLines
    /\ inbound' = [inbound EXCEPT ![c] = Append(@, line)]
    /\ nsent' = nsent + 1
    /\ UNCHANGED <<mvars, port, cstate, closed, closedIdle, out, faults, cancelled,
                   chans, svars, dvars, evars>>

\* no line, event or control message is on its way and no stage is in a send
PipelineIdle ==
    /\ \A c \in Conns : inbound[c] = << >>
    /\ decCtl = << >> /\ decEvt = << >> /\ encCtl = << >>
    /\ srvPc = "select" /\ decPc = "select"

\* a client closes its socket: end-of-stream follows the lines it wrote
ClientClose(c) ==
    /\ cstate[c] = "open" /\ ~closed[c]
    /\ closed' = [closed EXCEPT ![c] = TRUE]
    /\ closedIdle' = [closedIdle EXCEPT ![c] = PipelineIdle]
    /\ UNCHANGED <<mvars, port, cstate, inbound, nsent, out, faults, cancelled,
                   chans, svars, dvars, evars>>

\* the connection is reset: the unread lines are lost and reads fail
ClientReset(c) ==
    /\ cstate[c] = "open" /\ ~closed[c]
    /\ faults < MaxFaults
    /\ faults' = faults + 1
    /\ closed' = [closed EXCEPT ![c] = TRUE]
    /\ inbound' = [inbound EXCEPT ![c] = << >>]
    /\ UNCHANGED <<mvars, port, cstate, closedIdle, nsent, out, cancelled,
                   chans, svars, dvars, evars>>

\* ctrlc handler of main / stop_all of the tests
Cancel ==
    /\ ~cancelled
    /\ cancelled' = TRUE
    /\ UNCHANGED <<mvars, cvars, out, faults, chans, svars, dvars, evars>>

(* ---------------------------- server.rs -------------------------------- *)
\* decoder_event_receiver.recv() is pending (nothing queued, sender alive)
DecEvtPending == decEvt = << >> /\ ~DecFinished

\* where Server::run stands after a step: its position, what it holds, the
\* Encode control channel and the Matcher
SrvState(pc, msg, ec, bk, cl) ==
    [pc |-> pc, msg |-> msg, encCtl |-> ec, books |-> bk, call |-> cl]

\* Server::handle_decoder_event, Order arm, encoder_sender.send(Match(t)): the
\* send fails when the Encode Stage has returned, and suspends on a full channel
send_match(msg, ec, bk, cl) ==
    IF EncFinished THEN SrvState("err", NoMsg, ec, bk, cl)
    ELSE IF Len(ec) < ChanCap THEN SrvState("select", NoMsg, Append(ec, msg), bk, cl)
    ELSE SrvState("fwd_match", msg, ec, bk, cl)

\* handle_order with the Matcher called before the OrderAck is sent
handle_order_MatchFirst(msg, ec, bk, cl) ==
    IF EncFinished THEN SrvState("err", NoMsg, ec, bk, cl)
    ELSE LET r == apply(bk, msg.side, msg.product)
             rec == Recorded(cl, msg.side, msg.product, r)
             ack == [type |-> "OrderAck", id |-> msg.id, product |-> msg.product]
         IN IF r.ret # "None"
            THEN IF Len(ec) < ChanCap
                 THEN SrvState("select", NoMsg, Append(ec, [type |-> "Match", product |-> r.ret]),
                               r.books, rec)
                 ELSE SrvState("fwd_match", [type |-> "Match", product |-> r.ret], ec, r.books, rec)
            ELSE IF Len(ec) < ChanCap
                 THEN SrvState("select", NoMsg, Append(ec, ack), r.books, rec)
                 ELSE SrvState("select", NoMsg, ec, r.books, rec)

\* Server::handle_decoder_event, Order arm: the OrderAck is sent, then the
\* Matcher is called, then the Match, if any, is sent
handle_order(msg, ec, bk, cl) ==
    IF EncFinished THEN SrvState("err", NoMsg, ec, bk, cl)
    ELSE IF Len(ec) < ChanCap
    THEN LET acked == Append(ec, [type |-> "OrderAck", id |-> msg.id,
                                  product |-> msg.product])
             r == apply(bk, msg.side, msg.product)
             rec == Recorded(cl, msg.side, msg.product, r)
         IN IF r.ret # "None"
            THEN send_match([type |-> "Match", product |-> r.ret], acked, r.books, rec)
            ELSE SrvState("select", NoMsg, acked, r.books, rec)
    ELSE SrvState("fwd_ack", msg, ec, bk, cl)

\* handle_disconnected with a failed send logged and the loop going on
handle_disconnected_LogsFailure(msg, ec, bk, cl) ==
    IF EncFinished THEN SrvState("select", NoMsg, ec, bk, cl)
    ELSE IF Len(ec) < ChanCap
    THEN SrvState("select", NoMsg,
                  Append(ec, [type |-> "ClientDisconnected", id |-> msg.id]), bk, cl)
    ELSE SrvState("fwd_disc", msg, ec, bk, cl)

\* Server::handle_decoder_event, ClientDisconnected arm
handle_disconnected(msg, ec, bk, cl) ==
    IF EncFinished THEN SrvState("err", NoMsg, ec, bk, cl)
    ELSE IF Len(ec) < ChanCap
    THEN SrvState("select", NoMsg,
                  Append(ec, [type |-> "ClientDisconnected", id |-> msg.id]), bk, cl)
    ELSE SrvState("fwd_disc", msg, ec, bk, cl)

\* Server::handle_decoder_event
handle_decoder_event(msg, ec, bk, cl) ==
    IF msg.type = "Order" THEN handle_order(msg, ec, bk, cl)
    ELSE handle_disconnected(msg, ec, bk, cl)

\* the Acceptor moves to `st`; when Server::run returns, its two senders and
\* decoder_event_receiver are dropped
SrvMoves(st, events) ==
    /\ srvPc' = st.pc
    /\ srvMsg' = st.msg
    /\ encCtl' = st.encCtl
    /\ books' = st.books
    /\ call' = st.call
    /\ decEvt' = IF st.pc \in {"ok", "err"} THEN << >> ELSE events

\* Server::run, first branch of the biased select: a DecoderEvent is received
\* and handled
SrvRecvEvent ==
    /\ srvPc = "select"
    /\ decEvt # << >>
    /\ SrvMoves(handle_decoder_event(Head(decEvt), encCtl, books, call), Tail(decEvt))
    /\ UNCHANGED <<cvars, out, faults, cancelled, decCtl, dvars, evars>>

\* a send to the Encode Stage completes when there is room, or fails
EncSendReady == EncFinished \/ Len(encCtl) < ChanCap

\* Server::handle_decoder_event resumes in the send of the ClientDisconnected
SrvForwardDisconnected ==
    /\ srvPc = "fwd_disc"
    /\ EncSendReady
    /\ SrvMoves(handle_disconnected(srvMsg, encCtl, books, call), decEvt)
    /\ UNCHANGED <<cvars, out, faults, cancelled, decCtl, dvars, evars>>

\* Server::handle_decoder_event resumes in the send of the OrderAck
SrvForwardAck ==
    /\ srvPc = "fwd_ack"
    /\ EncSendReady
    /\ SrvMoves(handle_order(srvMsg, encCtl, books, call), decEvt)
    /\ UNCHANGED <<cvars, out, faults, cancelled, decCtl, dvars, evars>>

\* Server::handle_decoder_event resumes in the send of the Match
SrvForwardMatch ==
    /\ srvPc = "fwd_match"
    /\ EncSendReady
    /\ SrvMoves(send_match(srvMsg, encCtl, books, call), decEvt)
    /\ UNCHANGED <<cvars, out, faults, cancelled, decCtl, dvars, evars>>

\* Server::run, second branch of the biased select: the token is cancelled
SrvCancelled ==
    /\ srvPc = "select"
    /\ DecEvtPending
    /\ cancelled
    /\ SrvMoves(SrvState("ok", NoMsg, encCtl, books, call), decEvt)
    /\ UNCHANGED <<cvars, out, faults, cancelled, decCtl, dvars, evars>>

\* where handle_new_client stands: the position of Server::run, the connection
\* in hand and the two control channels
NewState(pc, msg, dc, ec) == [pc |-> pc, msg |-> msg, decCtl |-> dc, encCtl |-> ec]

\* register_write with the error of the send ending Server::run
register_write_Fatal(msg, dc, ec) ==
    IF EncFinished THEN NewState("err", NoMsg, dc, ec)
    ELSE IF Len(ec) < ChanCap
    THEN NewState("select", NoMsg, dc,
                  Append(ec, [type |-> "ClientAdded", id |-> ClientIdOf(msg.conn),
                              conn |-> msg.conn]))
    ELSE NewState("new_enc", msg, dc, ec)

\* Server::handle_new_client: encoder_sender.send(ClientAdded(client_id, write));
\* a failed send is logged by Server::run and the loop goes on
register_write(msg, dc, ec) ==
    IF EncFinished THEN NewState("select", NoMsg, dc, ec)
    ELSE IF Len(ec) < ChanCap
    THEN NewState("select", NoMsg, dc,
                  Append(ec, [type |-> "ClientAdded", id |-> ClientIdOf(msg.conn),
                              conn |-> msg.conn]))
    ELSE NewState("new_enc", msg, dc, ec)

\* register_read with Server::run back in its select, the write half not
\* sent, when the Encode control channel is full
register_read_DetachesWrite(msg, dc, ec) ==
    IF Len(dc) < ChanCap
    THEN LET added == Append(dc, [type |-> "ClientAdded", id |-> ClientIdOf(msg.conn),
                                  conn |-> msg.conn])
         IN IF EncFinished \/ Len(ec) < ChanCap
            THEN register_write(msg, added, ec)
            ELSE NewState("select", NoMsg, added, ec)
    ELSE NewState("new_dec", msg, dc, ec)

\* Server::handle_new_client: decoder_sender.send(ClientAdded(client_id, read)),
\* then the send to the Encode Stage (the Decode Stage outlives Server::run, so
\* the first send does not fail)
register_read(msg, dc, ec) ==
    IF Len(dc) < ChanCap
    THEN register_write(msg, Append(dc, [type |-> "ClientAdded",
                                         id |-> ClientIdOf(msg.conn),
                                         conn |-> msg.conn]), ec)
    ELSE NewState("new_dec", msg, dc, ec)

NewMoves(st) ==
    /\ srvPc' = st.pc
    /\ srvMsg' = st.msg
    /\ decCtl' = st.decCtl
    /\ encCtl' = st.encCtl

\* Server::run, third branch of the biased select, with handle_new_client: the
\* stream is writable, set_nodelay succeeds, the stream is split and its
\* halves are sent
SrvAccept(c) ==
    /\ srvPc = "select"
    /\ DecEvtPending
    /\ ~cancelled
    /\ cstate[c] = "backlog"
    /\ cstate' = [cstate EXCEPT ![c] = "open"]
    /\ NewMoves(register_read([type |-> "Accepted", conn |-> c], decCtl, encCtl))
    /\ UNCHANGED <<mvars, port, closed, closedIdle, inbound, nsent, out, faults, cancelled,
                   decEvt, dvars, evars>>

\* Server::run, third branch, when stream.writable() or set_nodelay fails:
\* handle_new_client returns and the stream is dropped
SrvAcceptFails(c) ==
    /\ srvPc = "select"
    /\ DecEvtPending
    /\ ~cancelled
    /\ cstate[c] = "backlog"
    /\ faults < MaxFaults
    /\ faults' = faults + 1
    /\ cstate' = [cstate EXCEPT ![c] = "dropped"]
    /\ UNCHANGED <<mvars, port, closed, closedIdle, inbound, nsent, out, cancelled,
                   chans, svars, dvars, evars>>

\* Server::handle_new_client resumes in the send to the Decode Stage
SrvSendToDecoder ==
    /\ srvPc = "new_dec"
    /\ Len(decCtl) < ChanCap
    /\ NewMoves(register_read(srvMsg, decCtl, encCtl))
    /\ UNCHANGED <<mvars, cvars, out, faults, cancelled, decEvt, dvars, evars>>

\* Server::handle_new_client resumes in the send to the Encode Stage
SrvSendToEncoder ==
    /\ srvPc = "new_enc"
    /\ EncSendReady
    /\ NewMoves(register_write(srvMsg, decCtl, encCtl))
    /\ UNCHANGED <<mvars, cvars, out, faults, cancelled, decEvt, dvars, evars>>

(* ---------------------------- decoder.rs ------------------------------- *)
InSeq(x, sq) == \E i \in 1 .. Len(sq) : sq[i] = x

\* Decoder::add_client
add_client(clients, client_id, read) == Insert(clients, client_id, read)

\* where Decoder::run stands after a step: its position, the rest of the
\* DecoderMessage in hand, the event channel and the clients
DecState(pc, disc, msg, evt, clients) ==
    [pc |-> pc, emitDisc |-> disc, emitMsg |-> msg, decEvt |-> evt, decClients |-> clients]

\* Decoder::run, second branch of the select, from the DecoderMessage on: each
\* ClientDisconnected is sent and its client removed, then the Order is sent;
\* a send fails when Server::run has returned, and suspends on a full channel
\* run_emit with the client left in the map after its ClientDisconnected
RECURSIVE run_emit_KeepsClient(_, _, _, _)
run_emit_KeepsClient(disc, msg, evt, clients) ==
    IF disc # << >>
    THEN IF SrvFinished THEN DecState("err", << >>, NoMsg, evt, EmptyMap)
         ELSE IF Len(evt) < ChanCap
         THEN run_emit_KeepsClient(Tail(disc), msg,
                       Append(evt, [type |-> "ClientDisconnected", id |-> Head(disc)]),
                       clients)
         ELSE DecState("emit", disc, msg, evt, clients)
    ELSE IF msg # NoMsg
    THEN IF SrvFinished THEN DecState("err", << >>, NoMsg, evt, EmptyMap)
         ELSE IF Len(evt) < ChanCap
         THEN DecState("select", << >>, NoMsg, Append(evt, msg), clients)
         ELSE DecState("emit", << >>, msg, evt, clients)
    ELSE DecState("select", << >>, NoMsg, evt, clients)

RECURSIVE run_emit_RemovesFirst(_, _, _, _)
run_emit_RemovesFirst(disc, msg, evt, clients) ==
    IF disc # << >>
    THEN IF SrvFinished THEN DecState("err", << >>, NoMsg, evt, EmptyMap)
         ELSE IF Len(evt) < ChanCap
         THEN run_emit_RemovesFirst(Tail(disc), msg,
                       Append(evt, [type |-> "ClientDisconnected", id |-> Head(disc)]),
                       Remove(clients, Head(disc)))
         ELSE DecState("emit", disc, msg, evt, Remove(clients, Head(disc)))
    ELSE IF msg # NoMsg
    THEN IF SrvFinished THEN DecState("err", << >>, NoMsg, evt, EmptyMap)
         ELSE IF Len(evt) < ChanCap
         THEN DecState("select", << >>, NoMsg, Append(evt, msg), clients)
         ELSE DecState("emit", << >>, msg, evt, clients)
    ELSE DecState("select", << >>, NoMsg, evt, clients)

RECURSIVE run_emit(_, _, _, _)
run_emit(disc, msg, evt, clients) ==
    IF disc # << >>
    THEN IF SrvFinished THEN DecState("err", << >>, NoMsg, evt, EmptyMap)
         ELSE IF Len(evt) < ChanCap
         THEN run_emit(Tail(disc), msg,
                       Append(evt, [type |-> "ClientDisconnected", id |-> Head(disc)]),
                       Remove(clients, Head(disc)))
         ELSE DecState("emit", disc, msg, evt, clients)
    ELSE IF msg # NoMsg
    THEN IF SrvFinished THEN DecState("err", << >>, NoMsg, evt, EmptyMap)
         ELSE IF Len(evt) < ChanCap
         THEN DecState("select", << >>, NoMsg, Append(evt, msg), clients)
         ELSE DecState("emit", << >>, msg, evt, clients)
    ELSE DecState("select", << >>, NoMsg, evt, clients)

\* the Decode Stage moves to `st`; when Decoder::run returns, receiver (the
\* control channel) and sender are dropped, and the readers with the Decoder
DecMoves(st) ==
    /\ decPc' = st.pc
    /\ emitDisc' = st.emitDisc
    /\ emitMsg' = st.emitMsg
    /\ decEvt' = st.decEvt
    /\ decClients' = st.decClients
    /\ passDisc' = << >>
    /\ decCtl' = IF st.pc \in {"ok", "err"} THEN << >> ELSE decCtl

\* Decoder::run, first branch of the select: a ClientAdded is received; the
\* decode_message future of this turn is dropped with what it collected
DecRecvControl ==
    /\ decPc = "select"
    /\ decCtl # << >>
    /\ decClients' = add_client(decClients, Head(decCtl).id, Head(decCtl).conn)
    /\ decCtl' = Tail(decCtl)
    /\ passDisc' = << >>
    /\ UNCHANGED <<mvars, cvars, out, faults, cancelled, decEvt, encCtl, svars,
                   decPc, emitDisc, emitMsg, evars>>

\* Decoder::run, first branch of the select: the control channel is closed
DecControlClosed ==
    /\ decPc = "select"
    /\ decCtl = << >>
    /\ SrvFinished
    /\ DecMoves(DecState("ok", << >>, NoMsg, decEvt, EmptyMap))
    /\ UNCHANGED <<mvars, cvars, out, faults, cancelled, encCtl, svars, evars>>

\* next_message_client with the client given up on a line that does not parse
invalid_request_DropsClient(clients, client_id) == Remove(clients, client_id)

\* Decoder::next_message_client, Err arm of Order::from_str: the line is logged
\* and the loop continues with the next line of the same reader
invalid_request(clients, client_id) == clients

\* Decoder::decode_message with Decoder::next_message_client: the read of one
\* registered client completes. A line that does not parse is dropped and the
\* read goes on; an Order ends the pass; an end-of-stream or a read error is
\* collected, and the pass ends when no read is left. Decoder::run then sends
\* what the pass returned.
DecPoll(client_id) ==
    /\ decPc = "select"
    /\ client_id \in DOMAIN decClients
    /\ ~InSeq(client_id, passDisc)
    /\ LET c == decClients[client_id] IN
        IF inbound[c] # << >>
        THEN /\ inbound' = [inbound EXCEPT ![c] = Tail(@)]
             /\ LET order == OrderFromStr(Head(inbound[c])) IN
                 IF ~order.ok
                 THEN /\ decClients' = invalid_request(decClients, client_id)
                      /\ UNCHANGED <<decPc, passDisc, emitDisc, emitMsg, decEvt, decCtl>>
                 ELSE DecMoves(run_emit(passDisc,
                                        [type |-> "Order", id |-> client_id,
                                         side |-> order.side, product |-> order.product],
                                        decEvt, decClients))
        ELSE /\ closed[c]
             /\ UNCHANGED inbound
             /\ LET collected == Append(passDisc, client_id) IN
                 IF \A k \in DOMAIN decClients : InSeq(k, collected)
                 THEN DecMoves(run_emit(collected, NoMsg, decEvt, decClients))
                 ELSE /\ passDisc' = collected
                      /\ UNCHANGED <<decPc, decClients, emitDisc, emitMsg, decEvt, decCtl>>
    /\ UNCHANGED <<mvars, port, cstate, closed, closedIdle, nsent, out, faults, cancelled, encCtl,
                   svars, evars>>

\* Decoder::run resumes in a send of the second branch
DecEmit ==
    /\ decPc = "emit"
    /\ SrvFinished \/ Len(decEvt) < ChanCap
    /\ DecMoves(run_emit(emitDisc, emitMsg, decEvt, decClients))
    /\ UNCHANGED <<mvars, cvars, out, faults, cancelled, encCtl, svars, evars>>

(* ---------------------------- encoder.rs ------------------------------- *)
\* The control events that server.rs sends (ClientAdded, ClientDisconnected,
\* OrderAck, Match) are handled as encoder.rs handles a new connection, a
\* disconnect, the acknowledgement to the originator and the relay to the
\* clients; a Match names no originator, so no client is passed over.

\* Encoder::run returns (every handler error is propagated by `?`): receiver
\* is dropped, and Drop for Encoder drains and shuts down the write halves
EncReturn ==
    /\ encPc' = "err"
    /\ encClients' = EmptyMap
    /\ encCtl' = << >>

WriteOutcomes == {"ok", "short", "err"}

\* a write may fail (the peer is gone, the send buffer is full, ...)
MayFail(c) == faults < MaxFaults
FaultsAfter(c, outcome) ==
    IF outcome # "ok" THEN faults + 1 ELSE faults

\* Encoder::send: the write of `line` is logged whole when it succeeds, and
\* under SHORT (a part of it was written) or ERR (the write failed) otherwise
Sent(o, c, line, outcome) ==
    CASE outcome = "ok" -> [o EXCEPT ![c] = Append(@, line)]
      [] outcome = "short" -> [o EXCEPT ![c] = Append(@, <<"SHORT">> \o line)]
      [] outcome = "err" -> [o EXCEPT ![c] = Append(@, <<"ERR">> \o line)]

\* EncClientAdded with the error of on_new_connection propagated by `?`
EncClientAdded_LoginFatal(outcome) ==
    /\ encPc = "run"
    /\ encCtl # << >>
    /\ Head(encCtl).type = "ClientAdded"
    /\ LET m == Head(encCtl) IN
        /\ outcome # "ok" => MayFail(m.conn)
        /\ out' = Sent(out, m.conn, EncodeLogin(m.id), outcome)
        /\ faults' = FaultsAfter(m.conn, outcome)
        /\ IF outcome = "ok"
           THEN /\ encClients' = Insert(encClients, m.id, m.conn)
                /\ encCtl' = Tail(encCtl)
                /\ UNCHANGED encPc
           ELSE EncReturn
    /\ UNCHANGED <<mvars, cvars, cancelled, decCtl, decEvt, svars, dvars>>

\* EncClientAdded with add_client ahead of the send of the Login
EncClientAdded_RegistersFirst(outcome) ==
    /\ encPc = "run"
    /\ encCtl # << >>
    /\ Head(encCtl).type = "ClientAdded"
    /\ LET m == Head(encCtl) IN
        /\ outcome # "ok" => MayFail(m.conn)
        /\ out' = Sent(out, m.conn, EncodeLogin(m.id), outcome)
        /\ faults' = FaultsAfter(m.conn, outcome)
        /\ encClients' = Insert(encClients, m.id, m.conn)
    /\ encCtl' = Tail(encCtl)
    /\ UNCHANGED <<mvars, cvars, cancelled, decCtl, decEvt, svars, dvars, encPc>>

\* Encoder::handle_control_message, ClientAdded arm, with
\* Encoder::on_new_connection: the Login is sent, then the client is added; a
\* failed send is logged and the write half is dropped
EncClientAdded(outcome) ==
    /\ encPc = "run"
    /\ encCtl # << >>
    /\ Head(encCtl).type = "ClientAdded"
    /\ LET m == Head(encCtl) IN
        /\ outcome # "ok" => MayFail(m.conn)
        /\ out' = Sent(out, m.conn, EncodeLogin(m.id), outcome)
        /\ faults' = FaultsAfter(m.conn, outcome)
        /\ encClients' = IF outcome = "ok" THEN Insert(encClients, m.id, m.conn)
                         ELSE encClients
    /\ encCtl' = Tail(encCtl)
    /\ UNCHANGED <<mvars, cvars, cancelled, decCtl, decEvt, svars, dvars, encPc>>

\* ClientDisconnected arm: self.clients.remove(&client_id)
EncClientDisconnected ==
    /\ encPc = "run"
    /\ encCtl # << >>
    /\ Head(encCtl).type = "ClientDisconnected"
    /\ encClients' = Remove(encClients, Head(encCtl).id)
    /\ encCtl' = Tail(encCtl)
    /\ UNCHANGED <<mvars, cvars, out, faults, cancelled, decCtl, decEvt, svars, dvars, encPc>>

\* the acknowledgement to the originator: clients.get_mut(id).context("Client
\* not found")? and Self::send(ack, write).await?
EncOrderAck(outcome) ==
    /\ encPc = "run"
    /\ encCtl # << >>
    /\ Head(encCtl).type = "OrderAck"
    /\ LET m == Head(encCtl) IN
        IF m.id \notin DOMAIN encClients
        THEN /\ outcome = "err"
             /\ EncReturn
             /\ UNCHANGED <<out, faults>>
        ELSE LET c == encClients[m.id] IN
             /\ outcome # "ok" => MayFail(c)
             /\ out' = Sent(out, c, EncodeOrderAck(m.product), outcome)
             /\ faults' = FaultsAfter(c, outcome)
             /\ IF outcome = "ok"
                THEN encCtl' = Tail(encCtl) /\ UNCHANGED <<encPc, encClients>>
                ELSE EncReturn
    /\ UNCHANGED <<mvars, cvars, cancelled, decCtl, decEvt, svars, dvars>>

\* the relay to the clients: for each client of the map, in the order of the
\* HashMap, Self::send(message, write).await?. `before` are the clients written
\* ahead of the one whose write fails.
EncMatch(before, failing, outcome) ==
    /\ encPc = "run"
    /\ encCtl # << >>
    /\ Head(encCtl).type = "Match"
    /\ LET line == EncodeTrade(Head(encCtl).product)
           conns(ids) == {encClients[k] : k \in ids}
       IN
        IF outcome = "ok"
        THEN /\ before = DOMAIN encClients /\ failing = 0
             /\ out' = [c \in Conns |-> IF c \in conns(before) THEN Append(out[c], line)
                                        ELSE out[c]]
             /\ encCtl' = Tail(encCtl)
             /\ UNCHANGED <<faults, encPc, encClients>>
        ELSE /\ failing \in DOMAIN encClients
             /\ before \subseteq (DOMAIN encClients) \ {failing}
             /\ MayFail(encClients[failing])
             /\ out' = [c \in Conns |->
                          IF c \in conns(before) THEN Append(out[c], line)
                          ELSE IF c = encClients[failing]
                               THEN Sent(out, c, line, outcome)[c]
                               ELSE out[c]]
             /\ faults' = FaultsAfter(encClients[failing], outcome)
             /\ EncReturn
    /\ UNCHANGED <<mvars, cvars, cancelled, decCtl, decEvt, svars, dvars>>

\* Encoder::handle_control_message, None arm: the channel is closed
EncChannelClosed ==
    /\ encPc = "run"
    /\ encCtl = << >>
    /\ SrvFinished
    /\ EncReturn
    /\ UNCHANGED <<mvars, cvars, out, faults, cancelled, decCtl, decEvt, svars, dvars>>

(* -------------------------- the pipeline ------------------------------- *)
ClientIds == Conns

SrvNext ==
    \/ SrvRecvEvent
    \/ SrvForwardDisconnected
    \/ SrvForwardAck
    \/ SrvForwardMatch
    \/ SrvCancelled
    \/ \E c \in Conns : SrvAccept(c)
    \/ SrvSendToDecoder
    \/ SrvSendToEncoder

DecNext ==
    \/ DecRecvControl
    \/ DecControlClosed
    \/ \E client_id \in ClientIds : DecPoll(client_id)
    \/ DecEmit

EncNext ==
    \/ \E outcome \in WriteOutcomes : EncClientAdded(outcome)
    \/ EncClientDisconnected
    \/ \E outcome \in WriteOutcomes : EncOrderAck(outcome)
    \/ \E before \in SUBSET ClientIds, failing \in {0} \cup ClientIds,
          outcome \in WriteOutcomes : EncMatch(before, failing, outcome)
    \/ EncChannelClosed

EnvNext ==
    \/ \E c \in 1 .. MaxConns : ClientConnect(c)
    \/ \E c \in Conns, line \in ClientLines : ClientWrite(c, line)
    \/ \E c \in Conns : ClientClose(c)
    \/ \E c \in Conns : ClientReset(c)
    \/ \E c \in Conns : SrvAcceptFails(c)
    \/ Cancel

Next == SrvNext \/ DecNext \/ EncNext \/ EnvNext

Spec == Init /\ [][Next]_vars

\* the pipeline when connections may share a remote port
SpecPorts == InitPorts /\ [][Next]_vars

\* the runtime polls every task that can make a step
FairSpec ==
    /\ Spec
    /\ WF_vars(SrvNext)
    /\ WF_vars(DecNext)
    /\ WF_vars(EncNext)

(* ------------------- a burst of connections --------------------------- *)
\* the lines of the clients of the burst
BurstLines == {<<"BUY", "APPLE">>, <<"SELL", "APPLE">>}

\* the connections are numbered in the order in which they arrive
BurstConnect(c) ==
    /\ \A d \in 1 .. (c - 1) : cstate[d] # "idle"
    /\ ClientConnect(c)

\* more connections arrive than a channel holds; no client closes, no
\* connection is reset, no accept and no write fails
BurstInit ==
    /\ books = MatcherNew
    /\ call = NoCall
    /\ port = [c \in Conns |-> c]
    /\ cstate = [c \in Conns |-> "idle"]
    /\ closed = [c \in Conns |-> FALSE]
    /\ closedIdle = [c \in Conns |-> FALSE]
    /\ inbound = [c \in Conns |-> << >>]
    /\ nsent = 0
    /\ out = [c \in Conns |-> << >>]
    /\ faults = MaxFaults
    /\ cancelled = FALSE
    /\ decCtl = << >> /\ decEvt = << >> /\ encCtl = << >>
    /\ srvPc = "select" /\ srvMsg = NoMsg
    /\ decPc = "select" /\ decClients = EmptyMap
    /\ passDisc = << >> /\ emitDisc = << >> /\ emitMsg = NoMsg
    /\ encPc = "run" /\ encClients = EmptyMap

BurstEnv ==
    \/ \E c \in 1 .. BurstConns : BurstConnect(c)
    \/ \E c \in Conns, line \in BurstLines : ClientWrite(c, line)
    \/ Cancel

\* the Acceptor when no client disconnects: no ClientDisconnected is ever
\* received, so the forward of one is never resumed
BurstSrvNext ==
    \/ SrvRecvEvent
    \/ SrvForwardAck
    \/ SrvForwardMatch
    \/ SrvCancelled
    \/ \E c \in Conns : SrvAccept(c)
    \/ SrvSendToDecoder
    \/ SrvSendToEncoder

\* the Encode Stage when no client disconnects
BurstEncNext ==
    \/ \E outcome \in WriteOutcomes : EncClientAdded(outcome)
    \/ \E outcome \in WriteOutcomes : EncOrderAck(outcome)
    \/ \E before \in SUBSET ClientIds, failing \in {0} \cup ClientIds,
          outcome \in WriteOutcomes : EncMatch(before, failing, outcome)
    \/ EncChannelClosed

BurstNext == BurstSrvNext \/ DecNext \/ BurstEncNext \/ BurstEnv

BurstSpec == BurstInit /\ [][BurstNext]_vars

\* the runtime polls every task that can make a step
FairBurstSpec ==
    /\ BurstSpec
    /\ WF_vars(BurstSrvNext)
    /\ WF_vars(DecNext)
    /\ WF_vars(BurstEncNext)

(* ------------- a burst of connections with clients leaving ------------ *)
\* more connections than two, clients that close, no cancellation, no reset,
\* no accept and no write that fails: a decode pass can hold the end of one
\* stream while another client is silent and a third is being registered
LeaveEnv ==
    \/ \E c \in 1 .. BurstConns : BurstConnect(c)
    \/ \E c \in Conns, line \in BurstLines : ClientWrite(c, line)
    \/ \E c \in Conns : ClientClose(c)

\* the Acceptor when the token is never cancelled
LeaveSrvNext ==
    \/ SrvRecvEvent
    \/ SrvForwardDisconnected
    \/ SrvForwardAck
    \/ SrvForwardMatch
    \/ \E c \in Conns : SrvAccept(c)
    \/ SrvSendToDecoder
    \/ SrvSendToEncoder

\* the Decode Stage while Server::run is alive
LeaveDecNext ==
    \/ DecRecvControl
    \/ \E client_id \in ClientIds : DecPoll(client_id)
    \/ DecEmit

\* the Encode Stage while Server::run is alive
LeaveEncNext ==
    \/ \E outcome \in WriteOutcomes : EncClientAdded(outcome)
    \/ EncClientDisconnected
    \/ \E outcome \in WriteOutcomes : EncOrderAck(outcome)
    \/ \E before \in SUBSET ClientIds, failing \in {0} \cup ClientIds,
          outcome \in WriteOutcomes : EncMatch(before, failing, outcome)

LeaveNext == LeaveSrvNext \/ LeaveDecNext \/ LeaveEncNext \/ LeaveEnv

LeaveSpec == BurstInit /\ [][LeaveNext]_vars

(* ------------------- one client, one line of any shape ----------------- *)
\* the tokens that the enumerated lines are made of
Tokens == {"BUY", "SELL", "APPLE", "PEAR", "TOMATO", "POTATO", "ONION", "HELLO", ""}

\* the lines of one to MaxTokens tokens (s.split(':') yields at least one)
TokenLines == UNION {[1 .. n -> Tokens] : n \in 1 .. MaxTokens}

\* client 1 is registered in both stages, was sent its Login and has written
\* one line
ParseInit ==
    /\ books = MatcherNew
    /\ call = NoCall
    /\ port = [c \in Conns |-> c]
    /\ cstate = [c \in Conns |-> IF c = 1 THEN "open" ELSE "idle"]
    /\ closed = [c \in Conns |-> FALSE]
    /\ closedIdle = [c \in Conns |-> FALSE]
    /\ \E line \in TokenLines : inbound = [c \in Conns |-> IF c = 1 THEN <<line>> ELSE << >>]
    /\ nsent = MaxLines
    /\ out = [c \in Conns |-> IF c = 1 THEN <<EncodeLogin(ClientIdOf(1))>> ELSE << >>]
    /\ faults = MaxFaults
    /\ cancelled = FALSE
    /\ decCtl = << >> /\ decEvt = << >> /\ encCtl = << >>
    /\ srvPc = "select" /\ srvMsg = NoMsg
    /\ decPc = "select" /\ decClients = Insert(EmptyMap, ClientIdOf(1), 1)
    /\ passDisc = << >> /\ emitDisc = << >> /\ emitMsg = NoMsg
    /\ encPc = "run" /\ encClients = Insert(EmptyMap, ClientIdOf(1), 1)

\* the line is read and decoded, the Order handled and acknowledged
ParseNext ==
    \/ \E client_id \in ClientIds : DecPoll(client_id)
    \/ SrvRecvEvent
    \/ \E outcome \in WriteOutcomes : EncOrderAck(outcome)

SpecParse == ParseInit /\ [][ParseNext]_vars

(* ------------------- the relay of chat messages ------------------------ *)
\* Encoder::run as the tests wire it: the DecoderEvents go to the Encode
\* Stage, which polls its control channel first. decEvt is that event channel.

\* a registered client writes a chat line and the Decode Stage turns it into
\* a ClientMessage event
ChatMessage(c) ==
    /\ cstate[c] = "open" /\ ~closed[c]
    /\ ReadByDecoder(c)
    /\ nsent < MaxLines
    /\ Len(decEvt) < ChanCap
    /\ encPc = "run"
    /\ nsent' = nsent + 1
    /\ decEvt' = Append(decEvt, [type |-> "ClientMessage", id |-> ClientIdOf(c),
                                  text |-> "Hello, World!"])
    /\ UNCHANGED <<mvars, port, cstate, closed, closedIdle, inbound, out, faults, cancelled,
                   decCtl, encCtl, svars, dvars, evars>>

\* Server::run, accept branch with handle_new_client, when the Acceptor has
\* no event channel of its own
ChatAccept(c) ==
    /\ srvPc = "select"
    /\ ~cancelled
    /\ cstate[c] = "backlog"
    /\ cstate' = [cstate EXCEPT ![c] = "open"]
    /\ NewMoves(register_read([type |-> "Accepted", conn |-> c], decCtl, encCtl))
    /\ UNCHANGED <<mvars, port, closed, closedIdle, inbound, nsent, out, faults, cancelled,
                   decEvt, dvars, evars>>

\* Encoder::handle_decoder_message, ClientMessage arm: the message is sent to
\* each client of the map but the originator, in the order of the HashMap,
\* with Self::send(..).await?; then the originator is looked up
\* (context("Client not found")?) and sent the MessageAck. `before` are the
\* clients written ahead of a failing write, `failing` the ClientId whose
\* write fails (0: none).
EncClientMessage(before, failing, outcome) ==
    /\ encPc = "run"
    /\ encCtl = << >>
    /\ decEvt # << >>
    /\ Head(decEvt).type = "ClientMessage"
    /\ LET m == Head(decEvt)
           others == (DOMAIN encClients) \ {m.id}
           line == EncodeMessage(m.id, m.text)
           relayed(ids) == [c \in Conns |->
                              IF \E k \in ids : encClients[k] = c
                              THEN Append(out[c], line) ELSE out[c]]
       IN
        IF outcome = "ok"
        THEN /\ before = others /\ failing = 0
             /\ UNCHANGED faults
             /\ IF m.id \in DOMAIN encClients
                THEN /\ out' = Sent(relayed(others), encClients[m.id], EncodeMessageAck, "ok")
                     /\ decEvt' = Tail(decEvt)
                     /\ UNCHANGED <<encPc, encClients, encCtl>>
                ELSE /\ out' = relayed(others)
                     /\ decEvt' = << >>
                     /\ EncReturn
        ELSE /\ failing \in DOMAIN encClients
             /\ MayFail(encClients[failing])
             /\ faults' = FaultsAfter(encClients[failing], outcome)
             /\ IF failing = m.id
                THEN /\ before = others
                     /\ out' = Sent(relayed(others), encClients[failing], EncodeMessageAck, outcome)
                ELSE /\ before \subseteq others \ {failing}
                     /\ out' = Sent(relayed(before), encClients[failing], line, outcome)
             /\ decEvt' = << >>
             /\ EncReturn
    /\ UNCHANGED <<mvars, cvars, cancelled, decCtl, svars, dvars>>

ChatNext ==
    \/ \E c \in 1 .. MaxConns : ClientConnect(c)
    \/ \E c \in Conns : ChatAccept(c)
    \/ SrvSendToDecoder
    \/ SrvSendToEncoder
    \/ DecRecvControl
    \/ \E outcome \in WriteOutcomes : EncClientAdded(outcome)
    \/ \E c \in Conns : ChatMessage(c)
    \/ \E before \in SUBSET ClientIds, failing \in {0} \cup ClientIds,
          outcome \in WriteOutcomes : EncClientMessage(before, failing, outcome)

SpecChat == Init /\ [][ChatNext]_vars

(* ------------------- the Matcher on its own ---------------------------- *)
\* the Matcher behind an idle pipeline
MatcherInit == Init

AddBuy(product) ==
    /\ call.n < MaxCalls
    /\ WithinCap(books, "Buy", product)
    /\ LET r == add_buy(books, product) IN
        /\ books' = r.books
        /\ call' = Recorded(call, "Buy", product, r)
    /\ UNCHANGED <<cvars, out, faults, cancelled, chans, svars, dvars, evars>>

AddSell(product) ==
    /\ call.n < MaxCalls
    /\ WithinCap(books, "Sell", product)
    /\ LET r == add_sell(books, product) IN
        /\ books' = r.books
        /\ call' = Recorded(call, "Sell", product, r)
    /\ UNCHANGED <<cvars, out, faults, cancelled, chans, svars, dvars, evars>>

MatcherNext ==
    \/ \E product \in OrderProducts : AddBuy(product)
    \/ \E product \in OrderProducts : AddSell(product)

SpecMatcher == MatcherInit /\ [][MatcherNext]_vars

(* ----------------------------- claims ---------------------------------- *)

\* C1: for every product, in every state reachable by add_buy / add_sell calls
\* from an empty Matcher, the product's Book has buys = 0 or sells = 0.
C1_MatchingInvariant ==
    \A p \in DOMAIN books : books[p].buys = 0 \/ books[p].sells = 0

\* a Book that rested orders, was drained by matches and rests orders again
C1_Witness ==
    /\ call.ret # "None"
    /\ \E p \in DOMAIN books : books[p].buys > 0
    /\ \E p \in DOMAIN books : books[p].sells > 0

\* C2: a Buy on p returns a Trade for p and decrements sells by one when
\* sells > 0, otherwise returns none and increments buys by one; a Sell is
\* symmetric; the books of every other product are left unchanged.
C2_ApplyContractStep ==
    call' # call =>
        LET p == call'.product
            old == BookOf(books, p)
            new == BookOf(books', p)
        IN
        /\ p \in DOMAIN books'
        /\ \A q \in Product \ {p} : BookOf(books', q) = BookOf(books, q)
        /\ call'.side = "Buy" =>
             IF old.sells > 0
             THEN call'.ret = p /\ new = [buys |-> old.buys, sells |-> old.sells - 1]
             ELSE call'.ret = "None" /\ new = [buys |-> old.buys + 1, sells |-> old.sells]
        /\ call'.side = "Sell" =>
             IF old.buys > 0
             THEN call'.ret = p /\ new = [buys |-> old.buys - 1, sells |-> old.sells]
             ELSE call'.ret = "None" /\ new = [buys |-> old.buys, sells |-> old.sells + 1]

C2_ApplyContract == [][C2_ApplyContractStep]_vars

\* Sell(Apple) on an empty engine followed by Buy(Apple): the trade is returned
\* and the Apple book is back at {buys: 0, sells: 0}
C2_Witness ==
    /\ call.side = "Buy" /\ call.product = "Apples" /\ call.ret = "Apples"
    /\ DOMAIN books = {"Apples"}
    /\ books["Apples"] = ZeroBook

(* --------------------- reading the log of writes ----------------------- *)
\* the entries of out[c] that are whole lines of one kind
LinesOf(c, kind) == {i \in 1 .. Len(out[c]) : out[c][i][1] = kind}

\* a write to c failed or was short
FailedWrites(c) == LinesOf(c, "SHORT") \cup LinesOf(c, "ERR")

\* c is registered in the Encode Stage
Registered(c) == \E k \in DOMAIN encClients : encClients[k] = c

\* the whole Login line was written to c
LoggedIn(c) == out[c] # << >> /\ out[c][1] = EncodeLogin(ClientIdOf(c))

\* an order line of c that the Decode Stage has not read yet
PendingOrder(c) == \E i \in 1 .. Len(inbound[c]) : OrderFromStr(inbound[c][i]).ok

\* the Encode Stage takes the control event at the head of its channel
EncHandles(type) ==
    /\ encPc = "run"
    /\ encCtl # << >>
    /\ Head(encCtl).type = type
    /\ encCtl' = Tail(encCtl) \/ encPc' = "err"

\* C3: every valid order line of a client that stays connected and registered
\* is eventually answered by one ACK to that client. Stated on the states
\* where the answer is still owed: while the Acceptor runs and is not
\* cancelled, a connected client that was logged in, saw none of its writes
\* fail and has an order line waiting can still be served, i.e. the Encode
\* Stage has not returned.
C3_OrderIsAcked ==
    \A c \in Conns :
        (/\ cstate[c] = "open" /\ ~closed[c]
         /\ LoggedIn(c) /\ FailedWrites(c) = {}
         /\ PendingOrder(c)
         /\ ~cancelled /\ ~SrvFinished)
        => ~EncFinished

\* C4: when the Encode Stage processes a Match, the trade is written exactly
\* once to every client registered at that moment: none is skipped (a client
\* whose own write fails has that failed write instead).
C4_BroadcastToAllStep ==
    EncHandles("Match") =>
        \A k \in DOMAIN encClients :
            LET c == encClients[k]
                line == EncodeTrade(Head(encCtl).product)
            IN out'[c] \in {Append(out[c], line),
                            Append(out[c], <<"SHORT">> \o line),
                            Append(out[c], <<"ERR">> \o line)}

C4_BroadcastToAll == [][C4_BroadcastToAllStep]_vars

\* C5: every connection registered in the Encode Stage was sent exactly one
\* LOGIN:<client_id> line, and the first write to any connection is its Login:
\* no ACK or TRADE precedes it.
C5_LoginFirst ==
    \A c \in Conns :
        /\ Registered(c) => LoggedIn(c)
        /\ out[c] # << >> =>
              out[c][1] \in {EncodeLogin(ClientIdOf(c)),
                             <<"SHORT">> \o EncodeLogin(ClientIdOf(c)),
                             <<"ERR">> \o EncodeLogin(ClientIdOf(c))}
        /\ Len(out[c]) > 1 => LoggedIn(c)
        /\ \A i \in 2 .. Len(out[c]) :
              out[c][i][1] # "LOGIN" /\ (out[c][i][1] \in {"SHORT", "ERR"} => out[c][i][2] # "LOGIN")

\* a registered client that was sent its Login, then an ACK and a TRADE
C5_Witness ==
    \E c \in Conns :
        /\ Registered(c)
        /\ LinesOf(c, "ACK") # {}
        /\ LinesOf(c, "TRADE") # {}

\* C6: after a client has closed its socket, the trades of the orders that
\* follow are written only to the clients that are still connected: no trade
\* is written to the sink of a client that closed while nothing was in flight.
C6_NoTradeToClosedStep ==
    \A c \in Conns :
        (closedIdle[c] /\ out'[c] # out[c]) => out'[c][Len(out'[c])][1] # "TRADE"

C6_NoTradeToClosed == [][C6_NoTradeToClosedStep]_vars

\* the Acceptor accepts c in this step
Accepts(c) == cstate[c] = "backlog" /\ cstate'[c] # "backlog"

\* the Acceptor takes a DecoderEvent in this step (nothing else shortens the
\* channel while Server::run is in its select)
TakesEvent == srvPc = "select" /\ decEvt # << >> /\ Len(decEvt') < Len(decEvt)

\* C7: once the token is cancelled, a turn of the Acceptor exits with Ok with
\* priority over both other event sources: it neither handles a pending
\* decode-stage event nor accepts a connection.
C7_CancelFirstStep ==
    cancelled => ~TakesEvent /\ \A c \in Conns : ~Accepts(c)

C7_CancelFirst == [][C7_CancelFirstStep]_vars

\* what Server::run does give: once the token is cancelled no connection is
\* accepted, and a turn with no pending decode-stage event exits with Ok; a
\* pending decode-stage event is handled ahead of the cancellation, and the
\* loop does not exit with Ok while one is pending.
C7_CancelBeforeAcceptStep ==
    /\ cancelled => \A c \in Conns : ~Accepts(c)
    /\ (cancelled /\ srvPc = "select" /\ decEvt = << >> /\ srvPc' # srvPc) => srvPc' = "ok"
    /\ (srvPc = "select" /\ decEvt # << >>) => srvPc' # "ok"
    /\ srvPc' = "ok" => cancelled

C7_CancelBeforeAccept == [][C7_CancelBeforeAcceptStep]_vars

\* the loop has exited with Ok and left a connection waiting in the backlog
C7_Witness ==
    /\ cancelled /\ srvPc = "ok"
    /\ \E c \in Conns : cstate[c] = "backlog"

\* a step of one of the three stages
StageNext == SrvNext \/ DecNext \/ EncNext

AllFinished == SrvFinished /\ DecFinished /\ EncFinished

\* C8: once cancellation is triggered, the three stage loops eventually
\* terminate under fair scheduling. For that, after the cancellation and
\* until all three have returned, some stage must be able to take a step
\* (the clients cannot resume a stage that is suspended in a send).
C8_ChainedShutdown ==
    cancelled => (AllFinished \/ ENABLED StageNext)

\* C9: a failed write to one client, in an ack or a broadcast, does not end
\* the loop of the Encode Stage.
C9_WriteFailureIsLocalStep ==
    (\/ EncHandles("Match")
     \/ EncHandles("OrderAck") /\ Head(encCtl).id \in DOMAIN encClients)
    => encPc' = "run"

C9_WriteFailureIsLocal == [][C9_WriteFailureIsLocalStep]_vars

\* C10: an ack for a ClientId that is not in the client map does not end the
\* loop of the Encode Stage and leaves its client map unchanged.
C10_UnknownClientIsLocalStep ==
    (EncHandles("OrderAck") /\ Head(encCtl).id \notin DOMAIN encClients)
    => encPc' = "run" /\ encClients' = encClients

C10_UnknownClientIsLocal == [][C10_UnknownClientIsLocalStep]_vars

\* the Decode Stage reads the next line of c in this step
ConsumesLine(c) ==
    /\ inbound[c] # << >>
    /\ inbound'[c] = Tail(inbound[c])
    /\ closed'[c] = closed[c]

\* the Order that a line of c decodes into
OrderEvent(c, line) ==
    [type |-> "Order", id |-> ClientIdOf(c),
     side |-> OrderFromStr(line).side, product |-> OrderFromStr(line).product]

\* C11: a line that fails to parse produces no Order, no Disconnected event
\* and no reply, and leaves the client registered in the Decode Stage; a
\* valid line read from a registered client is decoded into its Order (sent,
\* or held in a suspended send, unless the Acceptor has returned).
C11_MalformedIsSkippedStep ==
    \A c \in Conns :
        ConsumesLine(c) =>
            IF ~OrderFromStr(Head(inbound[c])).ok
            THEN /\ decEvt' = decEvt /\ emitMsg' = emitMsg /\ emitDisc' = emitDisc
                 /\ decPc' = decPc /\ decClients' = decClients
                 /\ out' = out /\ encCtl' = encCtl
            ELSE \/ /\ Len(decEvt') > Len(decEvt)
                    /\ decEvt'[Len(decEvt')] = OrderEvent(c, Head(inbound[c]))
                 \/ decPc' = "emit" /\ emitMsg' = OrderEvent(c, Head(inbound[c]))
                 \/ SrvFinished

TokenSide == [BUY |-> "Buy", SELL |-> "Sell"]
TokenProduct == [APPLE |-> "Apples", PEAR |-> "Pears", TOMATO |-> "Tomatoes",
                 POTATO |-> "Potatoes", ONION |-> "Onions"]
InGrammar(line) ==
    /\ Len(line) = 2
    /\ line[1] \in DOMAIN TokenSide
    /\ line[2] \in DOMAIN TokenProduct

\* an Order event is sent in this step
EmitsOrder == Len(decEvt') = Len(decEvt) + 1 /\ decEvt'[Len(decEvt')].type = "Order"

\* C12: a line decodes into an Order exactly when it consists of exactly two
\* tokens SIDE:PRODUCT with a known side and a known product, and the Order
\* carries that side and that product; every other line (fewer or more than
\* two tokens, unknown side or product) fails to decode.
C12_DecodeGrammarStep ==
    \A c \in Conns :
        ConsumesLine(c) =>
            LET line == Head(inbound[c]) IN
            IF InGrammar(line)
            THEN decEvt' = Append(decEvt, [type |-> "Order", id |-> ClientIdOf(c),
                                           side |-> TokenSide[line[1]],
                                           product |-> TokenProduct[line[2]]])
            ELSE ~EmitsOrder

C12_DecodeGrammar == [][C12_DecodeGrammarStep]_vars

\* the reader that the Decode Stage holds for c's ClientId is c's
ReadBy(clients, c) == ClientIdOf(c) \in DOMAIN clients /\ clients[ClientIdOf(c)] = c

\* a ClientDisconnected for client_id is sent in this step
EmitsDisconnected(client_id) ==
    \E i \in (Len(decEvt) + 1) .. Len(decEvt') :
        decEvt'[i] = [type |-> "ClientDisconnected", id |-> client_id]

\* C13: for each client the Orders that the Decode Stage emits are its valid
\* lines, in order, none duplicated, reordered or lost, also when a decode
\* pass is abandoned. Step by step: a valid line that is read becomes the
\* Order sent or held; an Order is sent only for the line just read or for
\* the Order held; an Order held in a suspended send stays held until it is
\* sent; the lines are read from the head; and the reader of a client is
\* given up only with its Disconnected event, so that no line it sends can
\* be left unread.
C13_StreamOrderStep ==
    /\ \A c \in Conns :
          (ConsumesLine(c) /\ OrderFromStr(Head(inbound[c])).ok) =>
              \/ decEvt' = Append(decEvt, OrderEvent(c, Head(inbound[c])))
              \/ decPc' = "emit" /\ emitMsg' = OrderEvent(c, Head(inbound[c]))
              \/ SrvFinished
    /\ EmitsOrder =>
          \/ \E c \in Conns :
                /\ ConsumesLine(c) /\ ReadBy(decClients, c)
                /\ decEvt'[Len(decEvt')] = OrderEvent(c, Head(inbound[c]))
          \/ decPc = "emit" /\ decEvt'[Len(decEvt')] = emitMsg
    /\ (decPc = "emit" /\ emitMsg # NoMsg) =>
          \/ emitMsg' = emitMsg /\ decPc' = "emit"
          \/ decEvt' # << >> /\ decEvt'[Len(decEvt')] = emitMsg
          \/ SrvFinished
    /\ \A c \in Conns :
          (Len(inbound'[c]) < Len(inbound[c]) /\ closed'[c] = closed[c]) => ConsumesLine(c)
    /\ \A c \in Conns :
          (ReadBy(decClients, c) /\ ~ReadBy(decClients', c)) =>
              \/ EmitsDisconnected(ClientIdOf(c)) /\ closed[c] /\ inbound[c] = << >>
              \/ decPc' \in {"ok", "err"}

C13_StreamOrder == [][C13_StreamOrderStep]_vars

\* the write half that the Encode Stage holds for c's ClientId is c's
WrittenBy(clients, c) == ClientIdOf(c) \in DOMAIN clients /\ clients[ClientIdOf(c)] = c

\* C14: the ClientIds of the registered connections are unique: registering a
\* connection never replaces the read half or the write half that a stage
\* holds for another connection (a half leaves a stage's map only when its
\* ClientId leaves the map, or when the stage returns).
C14_NoReplacementStep ==
    \A c \in Conns :
        /\ (ReadBy(decClients, c) /\ ~ReadBy(decClients', c)) =>
              ClientIdOf(c) \notin DOMAIN decClients' \/ decPc' \in {"ok", "err"}
        /\ (WrittenBy(encClients, c) /\ ~WrittenBy(encClients', c)) =>
              ClientIdOf(c) \notin DOMAIN encClients' \/ encPc' = "err"

C14_NoReplacement == [][C14_NoReplacementStep]_vars

\* the Encode Stage handles the ClientMessage at the head of its event channel
EncHandlesMessage ==
    /\ encPc = "run"
    /\ encCtl = << >>
    /\ decEvt # << >>
    /\ Head(decEvt).type = "ClientMessage"
    /\ decEvt' = Tail(decEvt) \/ encPc' = "err"

\* C15: when the Encode Stage handles a client message from originator o,
\* every registered client other than o is sent the line MESSAGE:<o> <text>,
\* and o is sent ACK:MESSAGE and not the MESSAGE line (a client whose own
\* write fails has that failed write instead).
C15_MessageRelayStep ==
    EncHandlesMessage =>
        LET m == Head(decEvt) IN
        \A k \in DOMAIN encClients :
            LET c == encClients[k]
                line == IF k = m.id THEN EncodeMessageAck ELSE EncodeMessage(m.id, m.text)
            IN out'[c] \in {Append(out[c], line),
                            Append(out[c], <<"SHORT">> \o line),
                            Append(out[c], <<"ERR">> \o line)}

C15_MessageRelay == [][C15_MessageRelayStep]_vars

\* the Acceptor completes a send of ClientAdded to the Encode Stage in this
\* step: handle_new_client gets past its send to the Decode Stage and is not
\* left suspended in its send to the Encode Stage
SendsClientAddedToEncoder ==
    /\ \/ \E c \in Conns : Accepts(c) /\ cstate'[c] = "open"
       \/ srvPc \in {"new_dec", "new_enc"}
    /\ srvPc' \notin {"new_dec", "new_enc"}

\* C16: a stage that observes one of its channels closed terminates its loop
\* and returns: the Acceptor when a send to the Encode Stage finds the
\* channel closed, the Decode Stage when its control channel or its event
\* channel is closed, the Encode Stage when its control channel is closed.
C16_ClosedChannelEndsStageStep ==
    /\ (EncFinished /\ SendsClientAddedToEncoder) => srvPc' \in {"ok", "err"}
    /\ (EncFinished /\ srvPc \in {"fwd_disc", "fwd_ack", "fwd_match"} /\ srvPc' # srvPc) =>
          srvPc' \in {"ok", "err"}
    /\ (SrvFinished /\ decPc' # decPc) => decPc' \in {"ok", "err"}
    /\ (SrvFinished /\ encPc = "run" /\ encCtl = << >> /\ encPc' # encPc) => encPc' = "err"

C16_ClosedChannelEndsStage == [][C16_ClosedChannelEndsStageStep]_vars

\* the DecoderEvent that Server::handle_decoder_event is handling in a step
\* of the Acceptor: the one it receives, or the one it holds in a suspended send
HandledEvent == IF srvPc = "select" THEN Head(decEvt) ELSE srvMsg

\* the Acceptor is in handle_decoder_event with an event of this type and
\* takes a step
HandlesEvent(type) ==
    /\ \/ TakesEvent
       \/ srvPc \in {"fwd_ack", "fwd_disc"} /\ srvPc' # srvPc
    /\ HandledEvent.type = type

\* the Matcher is called in this step
MatcherCalled == call' # call

\* C17: for every Order event the Acceptor handles, the OrderAck of its
\* client and product is enqueued before the Matcher is called (with the
\* side and product of the order), a Match the order produces is enqueued
\* after that ack and before any later decode event is taken, and a
\* ClientDisconnected event is forwarded as exactly one ClientDisconnected,
\* without a call of the Matcher.
C17_AckBeforeMatchStep ==
    /\ MatcherCalled =>
          /\ HandlesEvent("Order")
          /\ call'.side = HandledEvent.side /\ call'.product = HandledEvent.product
          /\ LET ack == [type |-> "OrderAck", id |-> HandledEvent.id,
                         product |-> HandledEvent.product]
                 match == [type |-> "Match", product |-> call'.ret]
             IN IF call'.ret = "None"
                THEN encCtl' = Append(encCtl, ack) /\ srvPc' = "select"
                ELSE \/ encCtl' = Append(Append(encCtl, ack), match) /\ srvPc' = "select"
                     \/ encCtl' = Append(encCtl, ack) /\ srvPc' = "fwd_match" /\ srvMsg' = match
    /\ HandlesEvent("Order") =>
          \/ MatcherCalled
          \/ srvPc' = "fwd_ack" /\ srvMsg' = HandledEvent /\ encCtl' = encCtl
          \/ srvPc' = "err" /\ EncFinished
    /\ (srvPc = "fwd_match" /\ srvPc' # srvPc) =>
          /\ ~MatcherCalled
          /\ \/ encCtl' = Append(encCtl, srvMsg) /\ srvPc' = "select" /\ decEvt' = decEvt
             \/ srvPc' = "err" /\ EncFinished /\ encCtl' = encCtl
    /\ srvPc \in {"fwd_ack", "fwd_match", "fwd_disc"} => ~TakesEvent
    /\ HandlesEvent("ClientDisconnected") =>
          /\ ~MatcherCalled /\ books' = books
          /\ \/ /\ encCtl' = Append(encCtl, [type |-> "ClientDisconnected",
                                                id |-> HandledEvent.id])
                /\ srvPc' = "select"
             \/ srvPc' = "fwd_disc" /\ srvMsg' = HandledEvent /\ encCtl' = encCtl
             \/ srvPc' = "err" /\ EncFinished /\ encCtl' = encCtl

C17_AckBeforeMatch == [][C17_AckBeforeMatchStep]_vars

\* an order has produced a trade and its Match is queued for the Encode Stage
C17_Witness ==
    /\ call.ret # "None"
    /\ srvPc = "select"
    /\ \E i \in 1 .. Len(encCtl) : encCtl[i] = [type |-> "Match", product |-> call.ret]

\* the events that Decoder::run sends in this step (only the Decode Stage
\* lengthens the channel)
SentEvents ==
    IF Len(decEvt') > Len(decEvt) THEN SubSeq(decEvt', Len(decEvt) + 1, Len(decEvt')) ELSE << >>

\* the clients whose ClientDisconnected is sent in this step, in order
SentDisconnects ==
    LET d == SelectSeq(SentEvents, LAMBDA e : e.type = "ClientDisconnected")
    IN [i \in 1 .. Len(d) |-> d[i].id]

\* an Order is sent in this step, or is held in a suspended send after it
OrderInHand ==
    \/ \E i \in 1 .. Len(SentEvents) : SentEvents[i].type = "Order"
    \/ decPc' = "emit" /\ emitMsg' # NoMsg

\* Decoder::run works on a DecoderMessage in this step: decode_message
\* returns one, or a suspended send resumes
DecEmits ==
    \/ decPc = "select" /\ (decPc' = "emit" \/ SentEvents # << >>)
    \/ decPc = "emit" /\ decPc' # "emit"
    \/ decPc = "emit" /\ SentEvents # << >>

\* C18: each turn of the Decode Stage sends at most one Order, with zero or
\* more ClientDisconnected; every ClientDisconnected collected in the turn is
\* sent before the Order of the turn; and a client leaves the map of the
\* Decode Stage only once its ClientDisconnected has been sent.
C18_TurnOutputStep ==
    /\ \A i \in 1 .. Len(SentEvents) :
          SentEvents[i].type = "Order" =>
             i = Len(SentEvents) /\ decPc' = "select" /\ emitDisc' = << >> /\ emitMsg' = NoMsg
    /\ (DecEmits /\ decPc' \notin {"ok", "err"}) =>
          /\ decPc = "emit" =>
                /\ SentDisconnects \o emitDisc' = emitDisc
                /\ OrderInHand = (emitMsg # NoMsg)
                /\ \A i \in 1 .. Len(SentEvents) :
                      SentEvents[i].type = "Order" => SentEvents[i] = emitMsg
                /\ decPc' = "emit" => emitMsg' = emitMsg
          /\ decPc = "select" =>
                IF OrderInHand
                THEN /\ SentDisconnects \o emitDisc' = passDisc
                     /\ \E c \in Conns : ConsumesLine(c)
                ELSE \E id \in DOMAIN decClients :
                        SentDisconnects \o emitDisc' = Append(passDisc, id)
    /\ \A id \in DOMAIN decClients :
          id \notin DOMAIN decClients' => EmitsDisconnected(id) \/ decPc' \in {"ok", "err"}
    /\ decPc' = "emit" => \A i \in 1 .. Len(emitDisc') : emitDisc'[i] \in DOMAIN decClients'

C18_TurnOutput == [][C18_TurnOutputStep]_vars

\* a turn that collected a disconnect and then read an order: the
\* ClientDisconnected is sent and its client removed, the Order waits for room
C18_Witness ==
    /\ decPc = "emit" /\ emitMsg # NoMsg /\ emitDisc = << >>
    /\ \E id \in ClientIds :
          /\ decEvt = <<[type |-> "ClientDisconnected", id |-> id]>>
          /\ id \notin DOMAIN decClients

\* the stream of c, registered in the Decode Stage, is at its end: every line
\* has been read and the peer has closed or the read fails
AtEndOfStream(c) == ReadByDecoder(c) /\ closed[c] /\ inbound[c] = << >>

\* C19: when the stream of a registered client reaches end-of-stream or a
\* read error, the Decode Stage eventually sends its ClientDisconnected and
\* removes it, under fair scheduling, also when the other registered clients
\* stay connected and send nothing more. For that, as long as such a client
\* is registered, some stage must be able to take a step: the clients are
\* not bound to send or to close.
C19_DisconnectReported ==
    \A c \in Conns : AtEndOfStream(c) => ENABLED StageNext

\* C20: in the loop of the Decode Stage a queued ClientAdded is taken with
\* priority over decode progress: while one is queued and Decoder::run is in
\* its select, no Order is sent, and none is taken in hand to be sent, before
\* the ClientAdded is registered.
C20_RegistrationFirstStep ==
    (decPc = "select" /\ decCtl # << >>) =>
        /\ ~EmitsOrder
        /\ ~(decPc' = "emit" /\ emitMsg' # NoMsg)

C20_RegistrationFirst == [][C20_RegistrationFirstStep]_vars

\* the write of the Login to c fails in this step
LoginFails(c) ==
    /\ Len(out'[c]) = Len(out[c]) + 1
    /\ out'[c][Len(out'[c])] \in {<<"SHORT">> \o EncodeLogin(ClientIdOf(c)),
                                  <<"ERR">> \o EncodeLogin(ClientIdOf(c))}

\* C21: when the write of the Login to a new connection fails, the
\* connection is not added to the map of the Encode Stage, the map is
\* otherwise unchanged, and Encoder::run stays in its loop with the later
\* control events still to be handled.
C21_LoginFailureIsLocalStep ==
    \A c \in Conns :
        LoginFails(c) =>
            /\ encClients' = encClients
            /\ ~Registered(c)'
            /\ encPc = "run" /\ encPc' = "run"
            /\ encCtl' = Tail(encCtl)

C21_LoginFailureIsLocal == [][C21_LoginFailureIsLocalStep]_vars

\* the Login of one connection failed, and the Encode Stage has since
\* registered another connection and written an ACK to it
C21_Witness ==
    \E c, d \in Conns :
        /\ c # d
        /\ out[c] \in {<<(<<"SHORT">> \o EncodeLogin(ClientIdOf(c)))>>,
                       <<(<<"ERR">> \o EncodeLogin(ClientIdOf(c)))>>}
        /\ ~Registered(c)
        /\ encPc = "run"
        /\ Registered(d) /\ LoggedIn(d) /\ LinesOf(d, "ACK") # {}

\* a send of Server::handle_decoder_event finds the Encode control channel
\* closed in this step: the send of the event just received, or a send that
\* was suspended
ForwardFails ==
    /\ EncFinished
    /\ \/ TakesEvent
       \/ srvPc \in {"fwd_ack", "fwd_match", "fwd_disc"} /\ srvPc' # srvPc

\* C22: when the forwarding of an OrderAck, a Match or a ClientDisconnected
\* to the Encode Stage fails because the channel is closed, Server::run
\* returns with the error; from then on it takes no decode event, accepts no
\* connection, sends nothing and does not call the Matcher.
C22_ForwardFailureIsFatalStep ==
    /\ ForwardFails => srvPc' = "err" /\ ~MatcherCalled /\ books' = books
    /\ srvPc = "err" =>
          /\ srvPc' = "err"
          /\ ~MatcherCalled /\ books' = books
          /\ decEvt' = decEvt
          /\ Len(decCtl') <= Len(decCtl) /\ Len(encCtl') <= Len(encCtl)
          /\ \A c \in Conns : ~Accepts(c)

C22_ForwardFailureIsFatal == [][C22_ForwardFailureIsFatalStep]_vars

\* Server::run has returned with the error of a failed forward while a
\* connection is still waiting to be accepted
C22_Witness ==
    /\ srvPc = "err" /\ EncFinished
    /\ \E c \in Conns : cstate[c] = "backlog"

\* the send of a new connection's write half finds the Encode Stage returned
RegistrationFails == EncFinished /\ SendsClientAddedToEncoder

\* C23: when the forwarding of a new connection's half fails because the
\* receiver is gone, Server::run does not return: it is back in its select,
\* holding nothing, with the read half of a connection just accepted queued
\* for the Decode Stage and no decode event lost, ready to accept the next
\* connection and to take the next decode event.
C23_RegistrationFailureIsLocalStep ==
    RegistrationFails =>
        /\ srvPc' = "select" /\ srvMsg' = NoMsg
        /\ encCtl' = encCtl /\ decEvt' = decEvt
        /\ \A c \in Conns : Accepts(c) => decCtl'[Len(decCtl')].conn = c

C23_RegistrationFailureIsLocal == [][C23_RegistrationFailureIsLocalStep]_vars

\* the Encode Stage has returned, and a connection accepted by the Acceptor
\* has its read half in the Decode Stage and no write half anywhere; the
\* Acceptor is in its select
C23_Witness ==
    /\ EncFinished /\ srvPc = "select"
    /\ \E c \in Conns :
          /\ cstate[c] = "open" /\ out[c] = << >>
          /\ ReadByDecoder(c)

\* a stage is suspended in a send on a full channel
SuspendedInSend ==
    \/ srvPc \in {"new_dec", "new_enc", "fwd_ack", "fwd_match", "fwd_disc"}
    \/ decPc = "emit"

\* the Acceptor waits for room in the Decode control channel, which only the
\* Decode Stage empties, and the Decode Stage waits for room in the event
\* channel, which only the Acceptor empties
SendCycle ==
    /\ srvPc = "new_dec" /\ Len(decCtl) >= ChanCap
    /\ decPc = "emit" /\ Len(decEvt) >= ChanCap

\* C24: a sender suspended on a full channel is always resumed in the end:
\* the Acceptor is never suspended sending ClientAdded on the full Decode
\* control channel while the Decode Stage is suspended sending an event on
\* the full event channel, and whenever a stage is suspended in a send some
\* stage can take a step.
C24_NoBackpressureDeadlock ==
    /\ ~SendCycle
    /\ SuspendedInSend => ENABLED StageNext

\* the ClientAdded of c is queued on the Encode control channel ahead of
\* position i, or the Encode Stage has taken it (the write of the Login is
\* the first thing it does with it)
AddedAheadOf(c, i) ==
    \/ \E j \in 1 .. (i - 1) : encCtl[j].type = "ClientAdded" /\ encCtl[j].conn = c
    \/ out[c] # << >>

\* C25: the ClientAdded of a connection is enqueued on the Encode control
\* channel before any OrderAck or ClientDisconnected of that connection, in
\* every interleaving, also when the Decode Stage registers the connection
\* and decodes its first order while the Acceptor is still in
\* handle_new_client. It holds of the events queued and of the one the
\* Acceptor holds in a suspended send.
C25_RegistrationPrecedesAcks ==
    /\ \A i \in 1 .. Len(encCtl) :
          encCtl[i].type \in {"OrderAck", "ClientDisconnected"} =>
              \A c \in Conns : ClientIdOf(c) = encCtl[i].id => AddedAheadOf(c, i)
    /\ srvPc \in {"fwd_ack", "fwd_disc"} =>
          \A c \in Conns : ClientIdOf(c) = srvMsg.id => AddedAheadOf(c, Len(encCtl) + 1)

\* the first Order of a connection was decoded before the Encode Stage took
\* the connection's ClientAdded: its OrderAck is behind the ClientAdded,
\* queued or held in a send suspended on the full channel
C25_Witness ==
    \E c \in Conns, j \in 1 .. Len(encCtl) :
        /\ encCtl[j].type = "ClientAdded" /\ encCtl[j].conn = c
        /\ out[c] = << >>
        /\ \/ \E i \in (j + 1) .. Len(encCtl) :
                 encCtl[i].type = "OrderAck" /\ encCtl[i].id = ClientIdOf(c)
           \/ srvPc = "fwd_ack" /\ srvMsg.id = ClientIdOf(c)

\* the smaller of two numbers
Min(a, b) == IF a <= b THEN a ELSE b

\* the resting counts of a product are the calls applied less the matches
\* returned, and every buy that a sell could meet has met one
Conserved(bk, cl, p) ==
    LET B == cl.buys[p]
        S == cl.sells[p]
        T == cl.trades[p]
        b == BookOf(bk, p)
    IN /\ b.buys = B - T /\ b.sells = S - T
       /\ T = Min(B, S)
       /\ b.buys >= 0 /\ b.sells >= 0

\* C26: after any sequence of add_buy / add_sell calls, for every product
\* with B buys and S sells applied and T matches returned, the resting buys
\* are B - T, the resting sells S - T, and T = min(B, S); no count goes
\* below zero, and every call returns a match or raises exactly one resting
\* count by one.
C26_OrderConservationStep ==
    /\ \A p \in Product : Conserved(books, call, p) /\ Conserved(books', call', p)
    /\ call' # call =>
          LET p == call'.product
              old == BookOf(books, p)
              new == BookOf(books', p)
          IN IF call'.ret # "None"
             THEN call'.ret = p /\ new.buys + new.sells = old.buys + old.sells - 1
             ELSE \/ new = [old EXCEPT !.buys = @ + 1]
                  \/ new = [old EXCEPT !.sells = @ + 1]

C26_OrderConservation == [][C26_OrderConservationStep]_vars

\* three buys and two sells of one product: two matches, one buy resting
C26_Witness ==
    \E p \in Product :
        /\ call.buys[p] = 3 /\ call.sells[p] = 2 /\ call.trades[p] = 2
        /\ BookOf(books, p) = [buys |-> 1, sells |-> 0]

\* the Decode Stage is done with c: the stream of c has ended, c is not in
\* the map, and no ClientAdded of c is on its way to the Decode Stage
Gone(c) ==
    /\ cstate[c] = "open" /\ closed[c]
    /\ ~ReadByDecoder(c)
    /\ \A i \in 1 .. Len(decCtl) : decCtl[i].conn # c
    /\ ~(srvPc = "new_dec" /\ srvMsg.conn = c)

\* the events with the ClientId of c that are sent in this step
SentFor(c) == SelectSeq(SentEvents, LAMBDA e : e.id = ClientIdOf(c))

\* C27: for each connection registered in the Decode Stage at most one
\* ClientDisconnected is ever sent, and no Order of that connection is sent
\* after it, also when a pass that had seen the end of the stream is dropped
\* for a control message and the end of the stream is seen again. Step by
\* step: an event is sent only for a registered connection; the
\* ClientDisconnected of a connection is sent once, as the last of its events,
\* and the Decode Stage is then done with the connection; and once it is done
\* with a connection it stays so and sends no event for it.
C27_SingleDisconnectStep ==
    \A c \in Conns :
        /\ SentFor(c) # << >> => ReadByDecoder(c)
        /\ EmitsDisconnected(ClientIdOf(c)) =>
              /\ \A i \in 1 .. Len(SentFor(c)) :
                    SentFor(c)[i].type = "ClientDisconnected" <=> i = Len(SentFor(c))
              /\ Gone(c)'
        /\ Gone(c) => Gone(c)' /\ SentFor(c) = << >>

C27_SingleDisconnect == [][C27_SingleDisconnectStep]_vars

\* three connections: the stream of c has ended, its one ClientDisconnected
\* is on its way and the Decode Stage is done with c, while the two other
\* clients are still connected and registered
C27_Witness ==
    \E c, d, e \in Conns :
        /\ c # d /\ c # e /\ d # e
        /\ Gone(c)
        /\ ReadByDecoder(d) /\ ~closed[d]
        /\ ReadByDecoder(e) /\ ~closed[e]
        /\ \E i \in 1 .. Len(decEvt) :
              decEvt[i] = [type |-> "ClientDisconnected", id |-> ClientIdOf(c)]
====
